---- MODULE Spec2Model ----
(***************************************************************************)
(* Model of pkg/cloudprovider/providers/gce/gce_clusterid.go: the cached   *)
(* cluster id (ClusterId), its informer-driven update path                 *)
(* (watchClusterId) and the lazy get-or-create path (getOrInitialize).     *)
(*                                                                         *)
(* Several processes each own one ClusterId; they share one API server     *)
(* object, the ingress-uid config map.  Every process runs an informer     *)
(* (reflector -> delta queue -> local store + event handlers) and a few    *)
(* caller threads that invoke GetId / GetFederationId.                     *)
(***************************************************************************)
EXTENDS Naturals, Sequences, FiniteSets

\* ------------------------------------------------------------------ bounds
MaxWrites == 1          \* writes to the config map by other components
MaxQueue  == 1          \* pending deltas held by one informer

Procs   == {"p1", "p2"}
Threads == {"t1", "t2", "t3"}
ProcOf(t) == IF t = "t3" THEN "p2" ELSE "p1"

\* ------------------------------------------------------------------ values
Nil    == "<nil>"                     \* a nil *string / a key absent from Data
Tokens == {"a"}                       \* results of makeUID
\* Data maps (uid, provider-uid) that other writers store
ExtData == {<<Nil, "f">>, <<"a", "f">>, <<"", Nil>>}

UIDConfigMapName == "ingress-uid"
UIDNamespace     == "kube-system"

\* A config map: its namespace and name, Data[UIDCluster], Data[UIDProvider] and
\* its resourceVersion.  rv = 0 together with nil fields stands for "no object".
NoObj == [ns |-> UIDNamespace, name |-> UIDConfigMapName, uid |-> Nil, prov |-> Nil,
          rv |-> 0]
Obj(u, pr, v) == [ns |-> UIDNamespace, name |-> UIDConfigMapName, uid |-> u,
                  prov |-> pr, rv |-> v]
Exists(o) == o.rv > 0

\* lines 75-76 and 90-91: the object is the cluster id config map
IsUIDConfigMap(o) == o.ns = UIDNamespace /\ o.name = UIDConfigMapName

Ops == {"GetId", "GetFederationId"}
\* what a call handed back: its return values, and what the call did
NoRes == [p |-> "none", op |-> "none", val |-> "", fed |-> FALSE, err |-> "none",
          sub |-> FALSE, read |-> 0, create |-> 0]
NoIO  == [read |-> 0, create |-> 0]

VARIABLES
    record,      \* the config map on the API server
    writes,      \* number of writes by other components so far
    ready,       \* ready[p]: ci.store != nil
    store,       \* store[p]: the informer's local store (one key)
    seen,        \* seen[p]: resourceVersion the reflector has enqueued up to
    queue,       \* queue[p]: deltas not yet processed
    hpc,         \* hpc[p]: position of the event handler ("idle","setids","setids2")
    hm,          \* hm[p]: the config map the handler passes to setIds
    clusterId,   \* clusterId[p]: ci.clusterId
    providerId,  \* providerId[p]: ci.providerId
    lockW,       \* lockW[p]: holder of idLock.Lock(), or "none"
    lockR,       \* lockR[p]: holders of idLock.RLock()
    pc,          \* pc[t]: position of caller thread t
    m,           \* m[t]: the config map thread t passes to setIds
    op,          \* op[t]: the call in progress, or "none"
    io,          \* io[t]: store reads and Create calls issued by the current call
    raced,       \* raced[t]: an earlier call of t issued a Create call
    last         \* the most recent return of a call

vars == <<record, writes, ready, store, seen, queue, hpc, hm, clusterId,
          providerId, lockW, lockR, pc, m, op, io, raced, last>>

infVars   == <<ready, store, seen, queue, hpc, hm>>
cacheVars == <<clusterId, providerId>>
lockVars  == <<lockW, lockR>>
callVars  == <<pc, m, op, io, raced, last>>

Init ==
    /\ record = NoObj
    /\ writes = 0
    /\ ready = [p \in Procs |-> FALSE]
    /\ store = [p \in Procs |-> NoObj]
    /\ seen = [p \in Procs |-> 0]
    /\ queue = [p \in Procs |-> << >>]
    /\ hpc = [p \in Procs |-> "idle"]
    /\ hm = [p \in Procs |-> NoObj]
    /\ clusterId = [p \in Procs |-> Nil]
    /\ providerId = [p \in Procs |-> Nil]
    /\ lockW = [p \in Procs |-> "none"]
    /\ lockR = [p \in Procs |-> {}]
    /\ pc = [t \in Threads |-> "idle"]
    /\ m = [t \in Threads |-> NoObj]
    /\ op = [t \in Threads |-> "none"]
    /\ io = [t \in Threads |-> NoIO]
    /\ raced = [t \in Threads |-> FALSE]
    /\ last = NoRes

\* ------------------------------------------------------- pure functions

\* setIds that takes a cluster value it already holds as a removal
SetCluster_Toggles(cur, cm) ==
    IF cm.uid = Nil THEN cur ELSE IF cur = cm.uid THEN Nil ELSE cm.uid

\* setIds with the test of line 224 inverted
SetCluster_Inverted(cur, cm) == IF cm.uid = Nil THEN cm.uid ELSE cur

\* setIds, line 224-226: the cluster field is adopted only if the key exists.
SetCluster(cur, cm) == IF cm.uid # Nil THEN cm.uid ELSE cur

\* setIds that assigns the provider field without the test of line 227
SetProvider_Overwrites(cur, cm) == cm.prov

\* setIds, line 227-229: the provider field is adopted only if the key exists.
SetProvider(cur, cm) == IF cm.prov # Nil THEN cm.prov ELSE cur

\* GetId that never looks at providerId
GetIdResult_IgnoresProvider(c, pr) ==
    IF c = Nil THEN [val |-> "", fed |-> FALSE, err |-> "NotFound"]
    ELSE [val |-> c, fed |-> FALSE, err |-> "nil"]

\* GetId without the nil check of line 121: an empty id and no error
GetIdResult_NoNilCheck(c, pr) ==
    IF c = Nil THEN [val |-> "", fed |-> FALSE, err |-> "nil"]
    ELSE IF pr # Nil /\ pr # c THEN [val |-> pr, fed |-> FALSE, err |-> "nil"]
    ELSE [val |-> c, fed |-> FALSE, err |-> "nil"]

\* GetId, lines 121-131, on the fields read under RLock.
GetIdResult(c, pr) ==
    IF c = Nil THEN [val |-> "", fed |-> FALSE, err |-> "NotFound"]
    ELSE IF pr # Nil /\ pr # c THEN [val |-> pr, fed |-> FALSE, err |-> "nil"]
    ELSE [val |-> c, fed |-> FALSE, err |-> "nil"]

\* GetFederationId that returns the provider id when federated
GetFederationIdResult_ReturnsProvider(c, pr) ==
    IF c = Nil THEN [val |-> "", fed |-> FALSE, err |-> "NotFound"]
    ELSE IF pr = Nil \/ c = pr THEN [val |-> "", fed |-> FALSE, err |-> "nil"]
    ELSE [val |-> pr, fed |-> TRUE, err |-> "nil"]

\* GetFederationId, lines 143-152, on the fields read under RLock.
GetFederationIdResult(c, pr) ==
    IF c = Nil THEN [val |-> "", fed |-> FALSE, err |-> "NotFound"]
    ELSE IF pr = Nil \/ c = pr THEN [val |-> "", fed |-> FALSE, err |-> "nil"]
    ELSE [val |-> c, fed |-> TRUE, err |-> "nil"]

\* true iff w holds idLock of process p (shared or exclusive)
HoldsLock(p, w) == lockW[p] = w \/ w \in lockR[p]

\* the return of a call: the results are handed to the caller
\* together with what the call did (sub: an earlier call of t issued a Create)
Return(t, r, creates) ==
    /\ pc' = [pc EXCEPT ![t] = "idle"]
    /\ op' = [op EXCEPT ![t] = "none"]
    /\ io' = [io EXCEPT ![t] = NoIO]
    /\ raced' = [raced EXCEPT ![t] = @ \/ creates > 0]
    /\ last' = [p |-> ProcOf(t), op |-> op[t], val |-> r.val, fed |-> r.fed,
                err |-> r.err, sub |-> raced[t], read |-> io[t].read,
                create |-> creates]

ErrRes(e) == [val |-> "", fed |-> FALSE, err |-> e]

\* ------------------------------------------------------- other writers

\* Another component (the ingress controller, a federation control plane)
\* creates or updates the config map through the API server.
ExternalWrite(d) ==
    /\ writes < MaxWrites
    /\ record' = Obj(d[1], d[2], record.rv + 1)
    /\ writes' = writes + 1
    /\ UNCHANGED <<infVars, cacheVars, lockVars, callVars>>

\* ------------------------------------------------------- watchClusterId

\* lines 62-108: the ClusterId is constructed, the informer and its store
\* are built (store becomes non-nil) and the controller is run.
StartWatching(p) ==
    /\ ~ready[p]
    /\ ready' = [ready EXCEPT ![p] = TRUE]
    /\ clusterId' = [clusterId EXCEPT ![p] = Nil]
    /\ providerId' = [providerId EXCEPT ![p] = Nil]
    /\ UNCHANGED <<record, writes, store, seen, queue, hpc, hm, lockVars,
                   callVars>>

\* The reflector behind cache.NewInformer (line 106) lists/watches the single
\* object and puts what it got on the informer's delta queue.
Reflect(p) ==
    /\ ready[p]
    /\ Exists(record)
    /\ record.rv > seen[p]
    /\ Len(queue[p]) < MaxQueue
    /\ queue' = [queue EXCEPT ![p] = Append(@, record)]
    /\ seen' = [seen EXCEPT ![p] = record.rv]
    /\ UNCHANGED <<record, writes, ready, store, hpc, hm, cacheVars, lockVars,
                   callVars>>

\* The periodic resync (updateFuncFrequency, line 106): the object of the local
\* store is queued again, unchanged.
Resync(p) ==
    /\ ready[p]
    /\ Exists(store[p])
    /\ queue[p] = << >>
    /\ hpc[p] = "idle"
    /\ queue' = [queue EXCEPT ![p] = <<store[p]>>]
    /\ UNCHANGED <<record, writes, ready, store, seen, hpc, hm, cacheVars,
                   lockVars, callVars>>

\* UpdateFunc, line 95: reflect.DeepEqual(old, cur)
DeepEqual(old, cur) == old = cur

\* the handlers without the namespace / name test of lines 75-78 and 90-93
HandlerApplies_NoNameCheck(old, cur) ==
    IF Exists(old) /\ IsUIDConfigMap(cur) THEN ~DeepEqual(old, cur) ELSE TRUE

\* true iff the handler goes on to setIds: AddFunc (lines 69-82) does for the
\* cluster id config map, UpdateFunc (lines 83-101) too unless old and cur are
\* equal.  (old exists: the informer calls UpdateFunc, otherwise AddFunc.)
HandlerApplies(old, cur) ==
    /\ IsUIDConfigMap(cur)
    /\ IF Exists(old) THEN ~DeepEqual(old, cur) ELSE TRUE

\* The informer takes one delta: the local store is updated, then AddFunc or
\* UpdateFunc runs up to its call of setIds.  (store[p] is the store's entry
\* for ci.cfgMapKey; another object would go under its own key.)
Process(p) ==
    /\ queue[p] # << >>
    /\ hpc[p] = "idle"
    /\ LET cur == Head(queue[p])
           old == store[p]
       IN /\ store' = [store EXCEPT ![p] = IF IsUIDConfigMap(cur) THEN cur ELSE @]
          /\ queue' = [queue EXCEPT ![p] = Tail(@)]
          /\ IF HandlerApplies(old, cur)
                THEN /\ hpc' = [hpc EXCEPT ![p] = "setids"]
                     /\ hm' = [hm EXCEPT ![p] = cur]
                ELSE UNCHANGED <<hpc, hm>>
    /\ UNCHANGED <<record, writes, ready, seen, cacheVars, lockVars, callVars>>

\* ------------------------------------------------------- setIds

\* idLock.Lock() is granted when nobody holds the lock.
CanLock(p) == lockW[p] = "none" /\ lockR[p] = {}

\* idLock.RLock() is granted when no writer holds the lock.
CanRLock(p) == lockW[p] = "none"

\* setIds lines 222-226 run by w in process p: Lock, then the cluster field.
SetIdsLock(p, w, cm) ==
    /\ CanLock(p)
    /\ lockW' = [lockW EXCEPT ![p] = w]
    /\ clusterId' = [clusterId EXCEPT ![p] = SetCluster(@, cm)]
    /\ UNCHANGED <<providerId, lockR>>

\* setIds lines 227-230 run by w in process p: the provider field, then Unlock.
SetIdsUnlock(p, w, cm) ==
    /\ providerId' = [providerId EXCEPT ![p] = SetProvider(@, cm)]
    /\ lockW' = [lockW EXCEPT ![p] = "none"]
    /\ UNCHANGED <<clusterId, lockR>>

\* the handler's setIds(m), first half
HandlerSetIdsLock(p) ==
    /\ hpc[p] = "setids"
    /\ SetIdsLock(p, "informer", hm[p])
    /\ hpc' = [hpc EXCEPT ![p] = "setids2"]
    /\ UNCHANGED <<record, writes, ready, store, seen, queue, hm, callVars>>

\* the handler's setIds(m), second half; the handler returns
HandlerSetIdsUnlock(p) ==
    /\ hpc[p] = "setids2"
    /\ SetIdsUnlock(p, "informer", hm[p])
    /\ hpc' = [hpc EXCEPT ![p] = "idle"]
    /\ hm' = [hm EXCEPT ![p] = NoObj]
    /\ UNCHANGED <<record, writes, ready, store, seen, queue, callVars>>

\* ------------------------------------------------------- callers

\* A thread calls GetId() or GetFederationId().
Call(t, o) ==
    /\ pc[t] = "idle"
    /\ pc' = [pc EXCEPT ![t] = "getOrInitialize"]
    /\ op' = [op EXCEPT ![t] = o]
    /\ UNCHANGED <<record, writes, infVars, cacheVars, lockVars, m, io, raced, last>>

\* getOrInitialize without the store check of lines 159-161
GetOrInitialize_NoStoreCheck(t) ==
    LET p == ProcOf(t) IN
    /\ pc[t] = "getOrInitialize"
    /\ pc' = [pc EXCEPT ![t] = IF clusterId[p] # Nil THEN "RLock"
                               ELSE "getConfigMap"]
    /\ UNCHANGED <<record, writes, infVars, cacheVars, lockVars, m, op, io, raced,
                   last>>

\* getOrInitialize without the check of lines 163-165
GetOrInitialize_NoFastPath(t) ==
    LET p == ProcOf(t) IN
    /\ pc[t] = "getOrInitialize"
    /\ IF ~ready[p]
          THEN Return(t, ErrRes("NotInitialized"), io[t].create)
          ELSE /\ pc' = [pc EXCEPT ![t] = "getConfigMap"]
               /\ UNCHANGED <<op, io, raced, last>>
    /\ UNCHANGED <<record, writes, infVars, cacheVars, lockVars, m>>

\* getOrInitialize lines 159-165: the store check, then the check of clusterId
\* (read without idLock).
GetOrInitialize(t) ==
    LET p == ProcOf(t) IN
    /\ pc[t] = "getOrInitialize"
    /\ IF ~ready[p]
          THEN Return(t, ErrRes("NotInitialized"), io[t].create)
          ELSE /\ pc' = [pc EXCEPT ![t] = IF clusterId[p] # Nil THEN "RLock"
                                          ELSE "getConfigMap"]
               /\ UNCHANGED <<op, io, raced, last>>
    /\ UNCHANGED <<record, writes, infVars, cacheVars, lockVars, m>>

\* getConfigMap that reports a record without the cluster field as missing
GetConfigMap_RequiresCluster(t) ==
    LET p == ProcOf(t) IN
    /\ pc[t] = "getConfigMap"
    /\ io' = [io EXCEPT ![t].read = 1]
    /\ IF Exists(store[p]) /\ store[p].uid # Nil
          THEN /\ m' = [m EXCEPT ![t] = store[p]]
               /\ pc' = [pc EXCEPT ![t] = "setIds"]
          ELSE /\ pc' = [pc EXCEPT ![t] = "Create"]
               /\ UNCHANGED m
    /\ UNCHANGED <<record, writes, infVars, cacheVars, lockVars, op, raced, last>>

\* getConfigMap lines 202-219 up to its call of setIds: the read of the
\* informer's local store.
GetConfigMap(t) ==
    LET p == ProcOf(t) IN
    /\ pc[t] = "getConfigMap"
    /\ io' = [io EXCEPT ![t].read = 1]
    /\ IF Exists(store[p])
          THEN /\ m' = [m EXCEPT ![t] = store[p]]
               /\ pc' = [pc EXCEPT ![t] = "setIds"]
          ELSE /\ pc' = [pc EXCEPT ![t] = "Create"]
               /\ UNCHANGED m
    /\ UNCHANGED <<record, writes, infVars, cacheVars, lockVars, op, raced, last>>

\* lines 175-178: makeUID fails (rand.Read), the error is returned.
MakeUIDFails(t) ==
    /\ pc[t] = "Create"
    /\ Return(t, ErrRes("EntropyUnavailable"), io[t].create)
    /\ UNCHANGED <<record, writes, infVars, cacheVars, lockVars, m>>

\* the creation with a cfg that carries the cluster field only
CreateOk_ClusterOnly(t, newId) ==
    /\ pc[t] = "Create"
    /\ ~Exists(record)
    /\ record' = Obj(newId, Nil, 1)
    /\ m' = [m EXCEPT ![t] = Obj(newId, Nil, 0)]
    /\ io' = [io EXCEPT ![t].create = 1]
    /\ pc' = [pc EXCEPT ![t] = "setIds"]
    /\ UNCHANGED <<writes, infVars, cacheVars, lockVars, op, raced, last>>

\* lines 175-197: makeUID returns newId and Create(cfg) succeeds: the object
\* did not exist.
CreateOk(t, newId) ==
    /\ pc[t] = "Create"
    /\ ~Exists(record)
    /\ record' = Obj(newId, newId, 1)
    /\ m' = [m EXCEPT ![t] = Obj(newId, newId, 0)]
    /\ io' = [io EXCEPT ![t].create = 1]
    /\ pc' = [pc EXCEPT ![t] = "setIds"]
    /\ UNCHANGED <<writes, infVars, cacheVars, lockVars, op, raced, last>>

\* lines 192-195: Create(cfg) fails because the object exists; err is returned.
CreateAlreadyExists(t) ==
    /\ pc[t] = "Create"
    /\ Exists(record)
    /\ Return(t, ErrRes("AlreadyExists"), io[t].create + 1)
    /\ UNCHANGED <<record, writes, infVars, cacheVars, lockVars, m>>

\* a failed Create that is tried once more before the error is returned
CreateFails_Retries(t) ==
    /\ pc[t] = "Create"
    /\ IF io[t].create = 0
          THEN /\ io' = [io EXCEPT ![t].create = 1]
               /\ UNCHANGED <<pc, op, raced, last>>
          ELSE Return(t, ErrRes("Other"), io[t].create + 1)
    /\ UNCHANGED <<record, writes, infVars, cacheVars, lockVars, m>>

\* lines 192-195: Create(cfg) fails for another reason; err is returned.
CreateFails(t) ==
    /\ pc[t] = "Create"
    /\ Return(t, ErrRes("Other"), io[t].create + 1)
    /\ UNCHANGED <<record, writes, infVars, cacheVars, lockVars, m>>

\* ci.setIds(m) of getConfigMap (line 217) or ci.setIds(cfg) (line 198), first half
CallerSetIdsLock(t) ==
    /\ pc[t] = "setIds"
    /\ SetIdsLock(ProcOf(t), t, m[t])
    /\ pc' = [pc EXCEPT ![t] = "setIds2"]
    /\ UNCHANGED <<record, writes, infVars, m, op, io, raced, last>>

\* second half; getOrInitialize returns nil (line 171 or 199)
CallerSetIdsUnlock(t) ==
    /\ pc[t] = "setIds2"
    /\ SetIdsUnlock(ProcOf(t), t, m[t])
    /\ pc' = [pc EXCEPT ![t] = "RLock"]
    /\ m' = [m EXCEPT ![t] = NoObj]
    /\ UNCHANGED <<record, writes, infVars, op, io, raced, last>>

\* GetId line 119 / GetFederationId line 141: ci.idLock.RLock()
RLock(t) ==
    LET p == ProcOf(t) IN
    /\ pc[t] = "RLock"
    /\ CanRLock(p)
    /\ lockR' = [lockR EXCEPT ![p] = @ \cup {t}]
    /\ pc' = [pc EXCEPT ![t] = "read"]
    /\ UNCHANGED <<record, writes, infVars, cacheVars, lockW, m, op, io, raced, last>>

\* GetId / GetFederationId without the deferred RUnlock of lines 120 and 142
ReadIds_NoRUnlock(t) ==
    LET p == ProcOf(t) IN
    /\ pc[t] = "read"
    /\ Return(t, IF op[t] = "GetId"
                    THEN GetIdResult(clusterId[p], providerId[p])
                    ELSE GetFederationIdResult(clusterId[p], providerId[p]),
              io[t].create)
    /\ UNCHANGED <<record, writes, infVars, cacheVars, lockVars, m>>

\* GetId lines 121-131 / GetFederationId lines 143-152, and the deferred RUnlock
ReadIds(t) ==
    LET p == ProcOf(t) IN
    /\ pc[t] = "read"
    /\ lockR' = [lockR EXCEPT ![p] = @ \ {t}]
    /\ Return(t, IF op[t] = "GetId"
                    THEN GetIdResult(clusterId[p], providerId[p])
                    ELSE GetFederationIdResult(clusterId[p], providerId[p]),
              io[t].create)
    /\ UNCHANGED <<record, writes, infVars, cacheVars, lockW, m>>

\* ------------------------------------------------------- specifications

\* One process (p1, with two caller threads) in an open environment: other
\* components, among them the initializers of other processes, write the
\* config map.
SoloProcs   == {"p1"}
SoloThreads == {"t1", "t2"}

Next ==
    \/ \E d \in ExtData : ExternalWrite(d)
    \/ \E p \in SoloProcs : StartWatching(p)
    \/ \E p \in SoloProcs : Reflect(p)
    \/ \E p \in SoloProcs : Resync(p)
    \/ \E p \in SoloProcs : Process(p)
    \/ \E p \in SoloProcs : HandlerSetIdsLock(p)
    \/ \E p \in SoloProcs : HandlerSetIdsUnlock(p)
    \/ \E t \in SoloThreads, o \in Ops : Call(t, o)
    \/ \E t \in SoloThreads : GetOrInitialize(t)
    \/ \E t \in SoloThreads : GetConfigMap(t)
    \/ \E t \in SoloThreads : MakeUIDFails(t)
    \/ \E t \in SoloThreads, id \in Tokens : CreateOk(t, id)
    \/ \E t \in SoloThreads : CreateAlreadyExists(t)
    \/ \E t \in SoloThreads : CreateFails(t)
    \/ \E t \in SoloThreads : CallerSetIdsLock(t)
    \/ \E t \in SoloThreads : CallerSetIdsUnlock(t)
    \/ \E t \in SoloThreads : RLock(t)
    \/ \E t \in SoloThreads : ReadIds(t)

Spec == Init /\ [][Next]_vars


\* ------------------------------------------------------- steps of a caller

\* thread t takes a step
Steps(t) == pc'[t] # pc[t]

\* t's call returns in this step
Returns(t) == pc[t] # "idle" /\ pc'[t] = "idle"

\* t's step reads or writes ci.clusterId / ci.providerId: the check of line 163,
\* the reads of GetId / GetFederationId, the two assignments of setIds
AccessesIds(t) ==
    \/ pc[t] = "getOrInitialize" /\ ready[ProcOf(t)] /\ Steps(t)
    \/ pc[t] = "read" /\ Steps(t)
    \/ pc[t] = "setIds" /\ Steps(t)
    \/ pc[t] = "setIds2" /\ Steps(t)

\* t holds idLock while it takes the step (it held it before, or the step
\* acquired it)
LockedStep(t) ==
    \/ HoldsLock(ProcOf(t), t)
    \/ lockW'[ProcOf(t)] = t

\* ------------------------------------------------------- claims

\* C1: after callers raced to create the record (and nobody else wrote it), every
\* later GetId() of a caller that took part in the race returns the one identity
\* that was created (unless the random source or the storage failed).
C1_SubsequentGetIdSame ==
    (/\ last.op = "GetId" /\ last.sub
     /\ writes = 0 /\ Exists(record)
     /\ last.err \notin {"EntropyUnavailable", "Other"})
        => (last.err = "nil" /\ last.val = record.uid)

\* C3: neither GetId() nor GetFederationId() returns an AlreadyExists error.
C3_AlreadyExistsNeverSurfaced == last.err # "AlreadyExists"

\* C4: a direct read made while the record exists on the API server (the watch
\* started, the cache still empty) finds the record: the caller goes on to setIds
\* and never to Create.
C4_ReadFindsExistingRecord ==
    [][\A t \in Threads :
          (pc[t] = "getConfigMap" /\ Exists(record) /\ Steps(t))
              => pc'[t] = "setIds"]_vars

\* C5: a call made before the watch was started (store is nil) returns
\* NotInitialized at once, having read no store, issued no Create and left
\* clusterId and providerId alone.
C5_FailFastBeforeReady ==
    [][\A t \in Threads :
          (pc[t] = "getOrInitialize" /\ ~ready[ProcOf(t)] /\ Steps(t))
              => /\ Returns(t)
                 /\ last'.err = "NotInitialized" /\ last'.val = "" /\ ~last'.fed
                 /\ last'.read = 0 /\ last'.create = 0
                 /\ UNCHANGED <<record, store, clusterId, providerId>>]_vars

C5_Witness ==
    /\ last.err = "NotInitialized"
    /\ ~ready[last.p]
    /\ Exists(record)

\* C6: with clusterId present, GetId() returns providerId if providerId is
\* present and differs from clusterId, and clusterId otherwise, with a nil error.
C6_GetIdRule ==
    [][\A t \in Threads :
          LET c  == clusterId[ProcOf(t)]
              pr == providerId[ProcOf(t)]
          IN (pc[t] = "read" /\ op[t] = "GetId" /\ Steps(t) /\ c # Nil)
                => /\ last'.err = "nil"
                   /\ (pr = Nil => last'.val = c)
                   /\ (pr = c => last'.val = c)
                   /\ (pr # Nil /\ pr # c => last'.val = pr)]_vars

C6_Witness ==
    /\ last.op = "GetId" /\ last.err = "nil" /\ last.val = "f"
    /\ clusterId[last.p] = "a" /\ providerId[last.p] = "f"

C9_AccessOnlyUnderLock ==
    [][\A t \in Threads : AccessesIds(t) => LockedStep(t)]_vars

\* The informer of p handles the delta at the head of its queue.
InformerStep(p) ==
    \/ Process(p)
    \/ HandlerSetIdsLock(p)
    \/ HandlerSetIdsUnlock(p)

\* A caller inside a call takes its next step (at most one of these is enabled,
\* by pc[t]).
CallerStep(t) ==
    \/ GetOrInitialize(t)
    \/ GetConfigMap(t)
    \/ MakeUIDFails(t)
    \/ \E id \in Tokens : CreateOk(t, id)
    \/ CreateAlreadyExists(t)
    \/ CreateFails(t)
    \/ CallerSetIdsLock(t)
    \/ CallerSetIdsUnlock(t)
    \/ RLock(t)
    \/ ReadIds(t)

\* The steps the Go scheduler and the informer take on their own: a caller that
\* is inside a call goes on, the informer delivers every event (a resync does not
\* keep a watch event out of the queue for ever) and resyncs periodically.
\* idLock hands the lock to a waiting goroutine (sync.RWMutex does not starve a
\* waiter), hence strong fairness for the steps that may wait for it.
SoloFairness ==
    /\ \A p \in SoloProcs :
          /\ SF_vars(Reflect(p))
          /\ WF_vars(Resync(p))
          /\ SF_vars(InformerStep(p))
    /\ \A t \in SoloThreads : SF_vars(CallerStep(t))

FairSpec == Spec /\ SoloFairness

\* the cache of p agrees with the record on every field the record carries
CacheFollowsRecord(p) ==
    /\ record.uid # Nil => clusterId[p] = record.uid
    /\ record.prov # Nil => providerId[p] = record.prov

\* C10: once the record has stopped changing and its events were delivered, the
\* cache of a process whose watch runs equals the record and stays equal (stated
\* here for the fields the record carries, which the claim covers a fortiori).
C10_CacheConverges ==
    \A p \in SoloProcs : <>[](ready[p] => CacheFollowsRecord(p))

\* Two processes (p1 with caller t1, p2 with caller t3) and no other
\* writer: the record is created by getOrInitialize alone, the random source and
\* the storage work, the informers deliver, and the callers keep calling GetId().
ClusterTokens == {"a", "b"}

ClusterThreads == {"t1", "t3"}

ClusterNext ==
    \/ \E p \in Procs : StartWatching(p)
    \/ \E p \in Procs : Reflect(p)
    \/ \E p \in Procs : Resync(p)
    \/ \E p \in Procs : Process(p)
    \/ \E p \in Procs : HandlerSetIdsLock(p)
    \/ \E p \in Procs : HandlerSetIdsUnlock(p)
    \/ \E t \in ClusterThreads : Call(t, "GetId")
    \/ \E t \in ClusterThreads : GetOrInitialize(t)
    \/ \E t \in ClusterThreads : GetConfigMap(t)
    \/ \E t \in ClusterThreads, id \in ClusterTokens : CreateOk(t, id)
    \/ \E t \in ClusterThreads : CreateAlreadyExists(t)
    \/ \E t \in ClusterThreads : CallerSetIdsLock(t)
    \/ \E t \in ClusterThreads : CallerSetIdsUnlock(t)
    \/ \E t \in ClusterThreads : RLock(t)
    \/ \E t \in ClusterThreads : ReadIds(t)

\* a caller of the cluster calls GetId() again, or goes on inside its call
ClusterCallerStep(t) ==
    \/ Call(t, "GetId")
    \/ GetOrInitialize(t)
    \/ GetConfigMap(t)
    \/ \E id \in ClusterTokens : CreateOk(t, id)
    \/ CreateAlreadyExists(t)
    \/ CallerSetIdsLock(t)
    \/ CallerSetIdsUnlock(t)
    \/ RLock(t)
    \/ ReadIds(t)

ClusterFairness ==
    /\ \A p \in Procs :
          /\ SF_vars(Reflect(p))
          /\ SF_vars(InformerStep(p))
    /\ \A t \in ClusterThreads : SF_vars(ClusterCallerStep(t))

ClusterSpec == Init /\ [][ClusterNext]_vars /\ ClusterFairness

\* a GetId() of process p has just returned the record's identity
GotIdentity(p) ==
    /\ last.p = p /\ last.op = "GetId" /\ last.err = "nil"
    /\ Exists(record) /\ last.val = record.uid

C11_NoRegression ==
    [][\A t \in Threads :
          LET p == ProcOf(t) IN
          (/\ pc[t] \in {"setIds", "setIds2"} /\ Steps(t)
           /\ hpc[p] = "idle" /\ Exists(store[p]) /\ m[t].rv < store[p].rv)
              => /\ store[p].uid # Nil => clusterId'[p] = clusterId[p]
                 /\ store[p].prov # Nil => providerId'[p] = providerId[p]]_vars

\* C12: when the watch of a process becomes ready, a record that exists at that
\* moment is already reflected in the cache of the process.
C12_ReadyImpliesSnapshot ==
    [][\A p \in Procs :
          (~ready[p] /\ ready'[p] /\ Exists(record)) => CacheFollowsRecord(p)']_vars

\* C13: a setIds (of the handler or of a caller) with a record that lacks the
\* cluster field leaves clusterId as it is, and one with a record that lacks the
\* provider field leaves providerId as it is.
C13_AbsentFieldKeepsCache ==
    [][/\ \A p \in Procs :
            /\ (hpc[p] = "setids" /\ hpc'[p] = "setids2" /\ hm[p].uid = Nil)
                  => clusterId'[p] = clusterId[p]
            /\ (hpc[p] = "setids2" /\ hpc'[p] = "idle" /\ hm[p].prov = Nil)
                  => providerId'[p] = providerId[p]
       /\ \A t \in Threads :
            /\ (pc[t] = "setIds" /\ Steps(t) /\ m[t].uid = Nil)
                  => clusterId'[ProcOf(t)] = clusterId[ProcOf(t)]
            /\ (pc[t] = "setIds2" /\ Steps(t) /\ m[t].prov = Nil)
                  => providerId'[ProcOf(t)] = providerId[ProcOf(t)]]_vars

\* the handler has applied a record without the provider field to a cache that
\* held a provider value
C13_Witness ==
    /\ hpc["p1"] = "idle" /\ queue["p1"] = << >>
    /\ Exists(store["p1"]) /\ store["p1"].prov = Nil
    /\ clusterId["p1"] = store["p1"].uid
    /\ providerId["p1"] = "a"

\* C14: a thread that is about to read the local store (GetByKey) or to call
\* Create holds idLock neither shared nor exclusive.
C14_NoLockAcrossStorageCall ==
    \A t \in Threads :
        pc[t] \in {"getConfigMap", "Create"} => ~HoldsLock(ProcOf(t), t)

\* a thread is at its Create call while the handler is inside setIds and
\* another caller waits for the lock
C14_Witness ==
    /\ pc["t1"] = "Create"
    /\ lockW["p1"] = "informer"
    /\ pc["t2"] = "RLock"

\* C15: a successful Create writes a record whose cluster and provider fields
\* are the same fresh token, and that cfg is applied to the cache before the call
\* returns: if no watch event was processed by then, GetId() returns the token
\* and GetFederationId() returns ("", false, nil).
C15_CreateThenApply ==
    [][\A t \in Threads :
          LET p == ProcOf(t) IN
          /\ (pc[t] = "Create" /\ pc'[t] = "setIds")
                => /\ ~Exists(record)
                   /\ record'.uid \in Tokens /\ record'.prov = record'.uid
                   /\ IsUIDConfigMap(record')
                   /\ m'[t].uid = record'.uid /\ m'[t].prov = record'.uid
          /\ (pc[t] = "read" /\ Steps(t) /\ io[t].create = 1 /\ ~Exists(store[p]))
                => /\ clusterId[p] \in Tokens /\ providerId[p] = clusterId[p]
                   /\ Returns(t) /\ last'.err = "nil" /\ last'.create = 1
                   /\ op[t] = "GetId" => last'.val = clusterId[p]
                   /\ op[t] = "GetFederationId" => last'.val = "" /\ ~last'.fed]_vars

\* GetFederationId() has returned ("", false, nil) from the call that created
\* the record, and no watch event was processed
C15_Witness ==
    /\ last.create = 1 /\ last.err = "nil" /\ last.op = "GetFederationId"
    /\ last.val = "" /\ ~last.fed
    /\ ~Exists(store[last.p])
    /\ clusterId[last.p] = "a" /\ providerId[last.p] = "a"

\* C16: a call whose Create fails with an error other than AlreadyExists, or
\* whose token generation fails, returns that error with the empty string; it has
\* made one Create attempt (none if the token failed), has applied nothing to the
\* cache, and the step leaves the record and the cache unchanged.
C16_CreateFailureSurfaces ==
    [][\A t \in Threads :
          /\ (pc[t] = "Create" /\ Steps(t) /\ pc'[t] # "setIds")
                => /\ Returns(t)
                   /\ last'.err \in {"Other", "EntropyUnavailable", "AlreadyExists"}
                   /\ last'.val = "" /\ ~last'.fed
                   /\ UNCHANGED <<record, clusterId, providerId>>
          /\ (Returns(t) /\ last'.err \in {"Other", "EntropyUnavailable"})
                => /\ pc[t] = "Create"
                   /\ last'.create = IF last'.err = "Other" THEN 1 ELSE 0
                   /\ last'.read = 1
                   /\ m[t] = NoObj]_vars

\* a call has returned the error of its one failed Create
C16_Witness ==
    /\ last.err = "Other" /\ last.create = 1 /\ last.read = 1
    /\ last.val = "" /\ ~last.fed
    /\ ready[last.p] /\ clusterId[last.p] = Nil

\* C17: a getOrInitialize that finds the watch started and clusterId set goes on
\* to the read of the ids with no store read and no Create, and leaves record,
\* store and cache unchanged; a thread comes to Create only from a store read
\* that found nothing, and to the store read only after it saw clusterId nil.
C17_FastPath ==
    [][\A t \in Threads :
          LET p == ProcOf(t) IN
          /\ (pc[t] = "getOrInitialize" /\ ready[p] /\ clusterId[p] # Nil /\ Steps(t))
                => /\ pc'[t] = "RLock"
                   /\ io'[t] = NoIO /\ m'[t] = NoObj
                   /\ UNCHANGED <<record, store, clusterId, providerId>>
          /\ (pc'[t] = "getConfigMap" /\ Steps(t))
                => pc[t] = "getOrInitialize" /\ clusterId[p] = Nil
          /\ (pc'[t] = "Create" /\ Steps(t))
                => pc[t] = "getConfigMap" /\ ~Exists(store[p])
          /\ (Returns(t) /\ last'.create > 0) => last'.read = 1
          /\ (Returns(t) /\ last'.read = 0 /\ last'.err # "NotInitialized")
                => last'.create = 0]_vars

\* a GetId() has returned the identity without a store read
C17_Witness ==
    /\ last.op = "GetId" /\ last.err = "nil" /\ last.val = "a"
    /\ last.read = 0 /\ last.create = 0

\* C19: a record of the local store that lacks the cluster field counts as
\* found: the call goes on to setIds with it and issues no Create, its setIds
\* leaves clusterId as it is, and while clusterId is nil GetId and
\* GetFederationId return NotFound; such a call leaves the record as it is.
C19_RecordWithoutClusterField ==
    [][\A t \in Threads :
          LET p == ProcOf(t) IN
          /\ (pc[t] = "getConfigMap" /\ Steps(t) /\ Exists(store[p])
                 /\ store[p].uid = Nil)
                => pc'[t] = "setIds" /\ m'[t] = store[p] /\ record' = record
          /\ (pc[t] = "setIds" /\ Steps(t) /\ m[t].uid = Nil)
                => clusterId'[p] = clusterId[p] /\ record' = record
          /\ (pc[t] = "read" /\ Steps(t) /\ clusterId[p] = Nil)
                => /\ Returns(t)
                   /\ last'.err = "NotFound" /\ last'.val = "" /\ ~last'.fed
          /\ (Returns(t) /\ last'.err = "NotFound")
                => last'.create = 0 /\ record' = record]_vars

\* GetFederationId() has returned NotFound while the local store holds a record
\* without the cluster field
C19_Witness ==
    /\ last.op = "GetFederationId" /\ last.err = "NotFound"
    /\ last.read = 1 /\ last.create = 0
    /\ Exists(store[last.p]) /\ store[last.p].uid = Nil
    /\ Exists(record) /\ record.uid = Nil
    /\ clusterId[last.p] = Nil

\* ------------------------------------------------------- the handlers alone

\* AddFunc and UpdateFunc as functions of the event and of the cache: the
\* informer of p1 is given one event, for the cluster id config map or for
\* another object, on every local store content and every cache content.
OtherNamespace == "default"
OtherName      == "other"

HandlerObjects ==
    {Obj(d[1], d[2], v) : d \in ExtData \cup {<<"a", "a">>}, v \in 1..(MaxWrites + 1)}

HandlerEvents ==
    HandlerObjects
        \cup {[Obj("a", "f", 1) EXCEPT !.ns = OtherNamespace],
              [Obj("a", "f", 1) EXCEPT !.name = OtherName]}

HandlerInit ==
    /\ record = NoObj
    /\ writes = 0
    /\ ready = [p \in Procs |-> p \in SoloProcs]
    /\ \E o \in {NoObj} \cup HandlerObjects :
          store = [p \in Procs |-> IF p \in SoloProcs THEN o ELSE NoObj]
    /\ seen = [p \in Procs |-> 0]
    /\ \E e \in HandlerEvents :
          queue = [p \in Procs |-> IF p \in SoloProcs THEN <<e>> ELSE << >>]
    /\ hpc = [p \in Procs |-> "idle"]
    /\ hm = [p \in Procs |-> NoObj]
    /\ \E c \in {Nil, "", "a"} :
          clusterId = [p \in Procs |-> IF p \in SoloProcs THEN c ELSE Nil]
    /\ \E c \in {Nil, "a", "f"} :
          providerId = [p \in Procs |-> IF p \in SoloProcs THEN c ELSE Nil]
    /\ lockW = [p \in Procs |-> "none"]
    /\ lockR = [p \in Procs |-> {}]
    /\ pc = [t \in Threads |-> "idle"]
    /\ m = [t \in Threads |-> NoObj]
    /\ op = [t \in Threads |-> "none"]
    /\ io = [t \in Threads |-> NoIO]
    /\ raced = [t \in Threads |-> FALSE]
    /\ last = NoRes

HandlerNext ==
    \/ \E p \in SoloProcs : Process(p)
    \/ \E p \in SoloProcs : HandlerSetIdsLock(p)
    \/ \E p \in SoloProcs : HandlerSetIdsUnlock(p)

HandlerSpec == HandlerInit /\ [][HandlerNext]_vars

\* C18: an update event whose new object equals the old one, and an add or
\* update event for an object whose namespace or name is not that of the
\* cluster id config map, leave the cache unchanged (the handler returns without
\* setIds); every other add or update event is applied by setIds, field by
\* field; nothing else run by the informer changes the cache.
C18_HandlersFilter ==
    [][\A p \in SoloProcs :
          /\ (queue[p] # << >> /\ queue'[p] # queue[p])
                => LET cur == Head(queue[p])
                       old == store[p]
                   IN IF \/ cur.ns # UIDNamespace
                         \/ cur.name # UIDConfigMapName
                         \/ Exists(old) /\ cur = old
                         THEN /\ hpc'[p] = "idle"
                              /\ UNCHANGED <<clusterId, providerId>>
                         ELSE /\ hpc'[p] = "setids" /\ hm'[p] = cur
                              /\ UNCHANGED <<clusterId, providerId>>
          /\ (hpc[p] = "setids" /\ hpc'[p] = "setids2")
                => /\ clusterId'[p] = IF hm[p].uid # Nil THEN hm[p].uid
                                      ELSE clusterId[p]
                   /\ providerId'[p] = providerId[p]
          /\ (hpc[p] = "setids2" /\ hpc'[p] = "idle")
                => /\ providerId'[p] = IF hm[p].prov # Nil THEN hm[p].prov
                                       ELSE providerId[p]
                   /\ clusterId'[p] = clusterId[p]
          /\ (clusterId'[p] # clusterId[p] \/ providerId'[p] # providerId[p])
                => hpc[p] \in {"setids", "setids2"}]_vars

\* the event for another object was taken from the queue: nothing went to the
\* local store's entry of the cluster id config map, nothing was applied
C18_Witness ==
    /\ queue["p1"] = << >> /\ hpc["p1"] = "idle"
    /\ ~Exists(store["p1"])
    /\ clusterId["p1"] = "a" /\ providerId["p1"] = Nil

\* C20: setIds is idempotent: whatever the cache held and whatever the record
\* carries, applying the record once more to the cache that a setIds of it has
\* left changes neither clusterId nor providerId, so neither the result of
\* GetId nor that of GetFederationId.
C20_SetIdsIdempotent ==
    [][\A p \in SoloProcs :
          (hpc[p] = "setids2" /\ hpc'[p] = "idle")
              => LET c1 == clusterId'[p]
                     p1 == providerId'[p]
                     c2 == SetCluster(c1, hm[p])
                     p2 == SetProvider(p1, hm[p])
                 IN /\ c2 = c1 /\ p2 = p1
                    /\ GetIdResult(c2, p2) = GetIdResult(c1, p1)
                    /\ GetFederationIdResult(c2, p2)
                          = GetFederationIdResult(c1, p1)]_vars

\* the handler is inside setIds: the cluster field is applied, the provider
\* field is about to replace another value
C20_Witness ==
    /\ hpc["p1"] = "setids2" /\ lockW["p1"] = "informer"
    /\ hm["p1"].uid = "a" /\ clusterId["p1"] = "a"
    /\ hm["p1"].prov = "f" /\ providerId["p1"] = "a"

TypeOK ==
    /\ writes \in 0..MaxWrites
    /\ \A p \in Procs : Len(queue[p]) <= MaxQueue
    /\ \A p \in Procs : lockW[p] \in {"none", "informer"} \cup Threads
    /\ \A p \in Procs : lockW[p] # "none" => lockR[p] = {}

====
